---- MODULE Spec2Model ----
(***************************************************************************)
(* Model of examples/trips/generate_data.py: the conversion of a SUMO FCD  *)
(* parquet table into the nested-list trips table for deck.gl TripsLayer.  *)
(*                                                                         *)
(* The script is one linear pipeline.  Each action below is one statement  *)
(* group of the script; the flatten loop is one action per iteration.      *)
(* Numbers are fixed-point naturals; timestep_time is in units of 2^-10 s, *)
(* so that the float32 spacing around 7 h (2^-9 s) is 2 units.             *)
(***************************************************************************)
EXTENDS Integers, Sequences, FiniteSets, TLC

\* ------------------------------------------------------------------ state
VARIABLES
    pc,                \* position in the script
    input_readable,    \* INPUT_FILE can be read
    input_columns,     \* column names of INPUT_FILE
    input_rows,        \* rows of INPUT_FILE
    SAMPLE_VEHICLES,   \* the sampling configuration
    df, total_vehicles, sampled_vehicles, grouped, geoms_num, coord_num,
    offsets, coords, timestamps, speeds, edges, positions, relative_speeds,
    angles, vehicle_ids, current_offset, i,
    table,             \* the assembled Arrow table
    output_file        \* contents of OUTPUT_FILE

buffers == <<offsets, coords, timestamps, speeds, edges, positions,
             relative_speeds, angles, vehicle_ids, current_offset, i>>
inputs == <<input_readable, input_columns, input_rows, SAMPLE_VEHICLES>>
frame == <<df, total_vehicles, sampled_vehicles, grouped, geoms_num, coord_num>>
vars == <<pc, inputs, frame, buffers, table, output_file>>

\* ---------------------------------------------------------------- bounds
MaxRows == 2          \* rows of the input table
MaxVehicles == 2      \* distinct non-null vehicle identifiers 1..MaxVehicles
MaxSample == 2        \* SAMPLE_VEHICLES ranges over None and 1..MaxSample

\* ------------------------------------------------------ program constants
None == -1            \* SAMPLE_VEHICLES = None
CONFIGURED_SAMPLE == 100   \* SAMPLE_VEHICLES = 100
NULL == 0             \* a null vehicle_id cell (None / NaN in pandas)
NoFile == [absent |-> TRUE]
NoTable == [unset |-> TRUE]

TimeUnit == 2^10                          \* ticks per second
TIME_LO == 7 * 3600 * TimeUnit            \* df['timestep_time'] > 7*3600
TIME_HI == (29 * 3600 * TimeUnit) \div 4  \* df['timestep_time'] < 7.25*3600

REQUIRED == {"vehicle_id", "timestep_time", "vehicle_x", "vehicle_y"}
OPTIONAL == {"vehicle_speed", "vehicle_edge", "vehicle_pos",
             "vehicle_speedRelative", "vehicle_angle"}
ALL_COLUMNS == REQUIRED \cup OPTIONAL

DEFAULT_SPEED == 0
DEFAULT_EDGE == <<>>
DEFAULT_POSITION == 0
DEFAULT_RELATIVE_SPEED == 1
DEFAULT_ANGLE == 0

\* ------------------------------------------------------------ input space
VehicleIds == 1..MaxVehicles
IdVals == VehicleIds \cup {NULL}
TimeVals == {TIME_LO + 1, TIME_LO + 3, TIME_HI}
SampleVals == {None} \cup (1..MaxSample)

\* The cell of a data column in source row s: a tag that names column and row.
ColIndex(c) ==
    CASE c = "vehicle_x" -> 1
      [] c = "vehicle_y" -> 2
      [] c = "vehicle_speed" -> 3
      [] c = "vehicle_edge" -> 4
      [] c = "vehicle_pos" -> 5
      [] c = "vehicle_speedRelative" -> 6
      [] c = "vehicle_angle" -> 7

Cell(c, s) == 10 * s + ColIndex(c)

\* ---------------------------------------------------------- conversions
RECURSIVE BitLen(_)
BitLen(v) == IF v = 0 THEN 0 ELSE 1 + BitLen(v \div 2)

\* numpy float32 store: 24 significant bits, round half to even.
F32(v) ==
    IF v < 2^24 THEN v
    ELSE LET q == 2^(BitLen(v) - 24)
             lo == (v \div q) * q
             r == v - lo
         IN  IF 2 * r < q THEN lo
             ELSE IF 2 * r > q THEN lo + q
             ELSE IF (lo \div q) % 2 = 0 THEN lo ELSE lo + q

Digit(d) ==
    CASE d = 0 -> "0" [] d = 1 -> "1" [] d = 2 -> "2" [] d = 3 -> "3"
      [] d = 4 -> "4" [] d = 5 -> "5" [] d = 6 -> "6" [] d = 7 -> "7"
      [] d = 8 -> "8" [] d = 9 -> "9"

\* str(n) of a non-negative integer: its decimal digits.
RECURSIVE Str(_)
Str(n) == IF n < 10 THEN <<Digit(n)>> ELSE Str(n \div 10) \o <<Digit(n % 10)>>

\* ------------------------------------------------------ dataframe helpers
Front(s) == SubSeq(s, 1, Len(s) - 1)
Last(s) == s[Len(s)]

Column(d, c) == [k \in 1..Len(d) |-> Cell(c, d[k].src)]
Times(d) == [k \in 1..Len(d) |-> d[k].timestep_time]

\* pd.read_parquet: the rows of the file, each with its position in the file.
ReadParquet(rows) ==
    [k \in 1..Len(rows) |->
        [src |-> k, vehicle_id |-> rows[k].vehicle_id,
         timestep_time |-> rows[k].timestep_time]]

InWindow(r) == r.timestep_time < TIME_HI /\ r.timestep_time > TIME_LO
FilterRows(d) == SelectSeq(d, InWindow)

\* Order of sort_values(['vehicle_id', 'timestep_time']): nulls last.
IdBefore(x, y) == x # NULL /\ (y = NULL \/ x < y)
Before(a, b) ==
    \/ IdBefore(a.vehicle_id, b.vehicle_id)
    \/ a.vehicle_id = b.vehicle_id /\ a.timestep_time < b.timestep_time

Insert(r, s) ==
    LET after == {k \in 1..Len(s) : Before(r, s[k])}
        p == IF after = {} THEN Len(s) + 1
             ELSE CHOOSE k \in after : \A j \in after : k <= j
    IN  SubSeq(s, 1, p - 1) \o <<r>> \o SubSeq(s, p, Len(s))

\* Variant: the sort of line 29 left out.
SortValuesOmitted(d) == d

RECURSIVE SortValues(_)
SortValues(d) == IF d = <<>> THEN <<>> ELSE Insert(Last(d), SortValues(Front(d)))

Range(s) == {s[k] : k \in 1..Len(s)}
IdsOf(d) == {d[k].vehicle_id : k \in 1..Len(d)}

\* Series.nunique(): nulls are not counted.
NUnique(d) == Cardinality(IdsOf(d) \ {NULL})

\* Series.unique(): values in order of first appearance, null included.
RECURSIVE Unique(_)
Unique(d) ==
    IF d = <<>> THEN <<>>
    ELSE LET u == Unique(Front(d))
         IN  IF Last(d).vehicle_id \in Range(u) THEN u
             ELSE Append(u, Last(d).vehicle_id)

\* The results np.random.choice(a, size, replace=False) can return.
Choices(a, size) ==
    {s \in [1..size -> Range(a)] : \A j, k \in 1..size : j # k => s[j] # s[k]}

Min(a, b) == IF a < b THEN a ELSE b

IsIn(d, vals) == SelectSeq(d, LAMBDA r : r.vehicle_id \in Range(vals))

RECURSIVE SortedSeq(_)
SortedSeq(S) ==
    IF S = {} THEN <<>>
    ELSE LET m == CHOOSE x \in S : \A y \in S : x <= y
         IN  <<m>> \o SortedSeq(S \ {m})

\* Variant: groupby(..., dropna=False), the null key forms a group.
GroupKeysKeepNull(d) == SortedSeq(IdsOf(d))

\* Variant: the groups visited in the order the random draw returned them.
GroupKeysDrawOrder(d) ==
    IF SAMPLE_VEHICLES = None THEN SortedSeq(IdsOf(d) \ {NULL})
    ELSE SelectSeq(sampled_vehicles, LAMBDA v : v # NULL /\ v \in IdsOf(d))

\* groupby keys: sorted, null keys dropped (sort=True, dropna=True).
GroupKeys(d) == SortedSeq(IdsOf(d) \ {NULL})

GroupRows(d, key) == SelectSeq(d, LAMBDA r : r.vehicle_id = key)

GroupBy(d) ==
    LET keys == GroupKeys(d)
    IN  [g \in 1..Len(keys) |-> [key |-> keys[g], rows |-> GroupRows(d, keys[g])]]

Zeros(n) == [k \in 1..n |-> 0]
ZeroPairs(n) == [k \in 1..n |-> <<0, 0>>]

\* buf[off : off + len(vals)] = vals, stored as float32
SliceAssign(buf, off, vals) ==
    [k \in 1..Len(buf) |->
        IF k > off /\ k <= off + Len(vals) THEN F32(vals[k - off]) ELSE buf[k]]

\* buf[off : off + n] = v
SliceFill(buf, off, n, v) ==
    [k \in 1..Len(buf) |-> IF k > off /\ k <= off + n THEN F32(v) ELSE buf[k]]

\* coords[off : off + n, axis] = vals
SliceAssignAxis(buf, off, vals, axis) ==
    [k \in 1..Len(buf) |->
        IF k > off /\ k <= off + Len(vals)
        THEN [buf[k] EXCEPT ![axis] = F32(vals[k - off])]
        ELSE buf[k]]

\* pa.ListArray.from_arrays(offsets, values)
ListArray(offs, values) ==
    [t \in 1..(Len(offs) - 1) |-> SubSeq(values, offs[t] + 1, offs[t + 1])]

\* The column sets a file can carry: complete, or with one column absent.
ColumnSets == {ALL_COLUMNS} \cup {ALL_COLUMNS \ {c} : c \in ALL_COLUMNS}

RowVals == [vehicle_id : IdVals, timestep_time : TimeVals]
Tables == UNION {[1..n -> RowVals] : n \in 0..MaxRows}

Blank ==
    /\ pc = "load"
    /\ df = <<>> /\ total_vehicles = 0 /\ sampled_vehicles = <<>>
    /\ grouped = <<>> /\ geoms_num = 0 /\ coord_num = 0
    /\ offsets = <<>> /\ coords = <<>> /\ timestamps = <<>> /\ speeds = <<>>
    /\ edges = <<>> /\ positions = <<>> /\ relative_speeds = <<>>
    /\ angles = <<>> /\ vehicle_ids = <<>> /\ current_offset = 0 /\ i = 0
    /\ table = NoTable
    /\ output_file = NoFile

\* Every table of at most MaxRows rows, in any row order, under every
\* sampling configuration; an unreadable file has no content.
InitBounded ==
    /\ \/ /\ input_readable = TRUE
          /\ input_columns \in ColumnSets
          /\ input_rows \in Tables
          /\ SAMPLE_VEHICLES \in SampleVals
       \/ /\ input_readable = FALSE
          /\ input_columns = {}
          /\ input_rows = <<>>
          /\ SAMPLE_VEHICLES = None
    /\ Blank

\* Three vehicles with 2, 3 and 1 samples inside the time window, in any row
\* order, optionally preceded by a sample on the lower bound of the window;
\* sampling disabled or as configured in the script.
ScenarioRowVals ==
    {[vehicle_id |-> 1, timestep_time |-> TIME_LO + 1],
     [vehicle_id |-> 2, timestep_time |-> TIME_LO + 1],
     [vehicle_id |-> 2, timestep_time |-> TIME_LO + 3],
     [vehicle_id |-> 3, timestep_time |-> TIME_LO + 3]}

CountId(rows, v) == Cardinality({k \in 1..Len(rows) : rows[k].vehicle_id = v})

ScenarioTables ==
    {t \in [1..6 -> ScenarioRowVals] :
        CountId(t, 1) = 2 /\ CountId(t, 2) = 3 /\ CountId(t, 3) = 1}

InitScenario ==
    /\ input_readable = TRUE
    /\ input_columns = ALL_COLUMNS
    /\ \E t \in ScenarioTables :
          \/ input_rows = t
          \/ input_rows = <<[vehicle_id |-> 3, timestep_time |-> TIME_LO]>> \o t
    /\ SAMPLE_VEHICLES \in {None, CONFIGURED_SAMPLE}
    /\ Blank

Init == InitBounded \/ InitScenario

\* --------------------------------------------------------------- actions
\* line 22: df = pd.read_parquet(INPUT_FILE)
Load ==
    /\ pc = "load"
    /\ IF input_readable
       THEN /\ df' = ReadParquet(input_rows)
            /\ pc' = "filter"
       ELSE /\ pc' = "error"
            /\ UNCHANGED df
    /\ UNCHANGED <<inputs, total_vehicles, sampled_vehicles, grouped,
                   geoms_num, coord_num, buffers, table, output_file>>

\* line 23: the time-window filter
Filter ==
    /\ pc = "filter"
    /\ IF "timestep_time" \in input_columns
       THEN /\ df' = FilterRows(df)
            /\ pc' = "count"
       ELSE /\ pc' = "error"
            /\ UNCHANGED df
    /\ UNCHANGED <<inputs, total_vehicles, sampled_vehicles, grouped,
                   geoms_num, coord_num, buffers, table, output_file>>

\* lines 25-26: print the number of vehicles and positions
Count ==
    /\ pc = "count"
    /\ IF "vehicle_id" \in input_columns
       THEN /\ total_vehicles' = NUnique(df)
            /\ pc' = "sort"
       ELSE /\ pc' = "error"
            /\ UNCHANGED total_vehicles
    /\ UNCHANGED <<inputs, df, sampled_vehicles, grouped, geoms_num,
                   coord_num, buffers, table, output_file>>

\* line 29: df = df.sort_values(['vehicle_id', 'timestep_time'])
Sort ==
    /\ pc = "sort"
    /\ df' = SortValues(df)
    /\ pc' = "sample"
    /\ UNCHANGED <<inputs, total_vehicles, sampled_vehicles, grouped,
                   geoms_num, coord_num, buffers, table, output_file>>

\* lines 32-40: optional sampling
Sample ==
    /\ pc = "sample"
    /\ IF SAMPLE_VEHICLES # None
       THEN LET unique_vehicles == Unique(df)
            IN  \E s \in Choices(unique_vehicles,
                                 Min(SAMPLE_VEHICLES, Len(unique_vehicles))) :
                    /\ sampled_vehicles' = s
                    /\ df' = IsIn(df, s)
       ELSE UNCHANGED <<df, sampled_vehicles>>
    /\ pc' = "group"
    /\ UNCHANGED <<inputs, total_vehicles, grouped, geoms_num, coord_num,
                   buffers, table, output_file>>

\* lines 43-65: groupby, dimensions, buffer allocation
Group ==
    /\ pc = "group"
    /\ grouped' = GroupBy(df)
    /\ geoms_num' = Len(GroupBy(df))
    /\ coord_num' = Len(df)
    /\ offsets' = Zeros(Len(GroupBy(df)) + 1)
    /\ coords' = ZeroPairs(Len(df))
    /\ timestamps' = Zeros(Len(df))
    /\ speeds' = Zeros(Len(df))
    /\ edges' = <<>>
    /\ positions' = Zeros(Len(df))
    /\ relative_speeds' = Zeros(Len(df))
    /\ angles' = Zeros(Len(df))
    /\ vehicle_ids' = <<>>
    /\ current_offset' = 0
    /\ i' = 0
    /\ pc' = "flatten"
    /\ UNCHANGED <<inputs, df, total_vehicles, sampled_vehicles, table,
                   output_file>>

\* Variant: every group written at the start of the buffer.
StoreAtZero(buf, c, group, default) ==
    IF c \in input_columns
    THEN SliceAssign(buf, 0, Column(group, c))
    ELSE SliceFill(buf, 0, Len(group), default)

\* Variant: an absent column leaves the zero-initialised buffer as it is.
StoreWithoutDefault(buf, c, group, default) ==
    IF c \in input_columns
    THEN SliceAssign(buf, current_offset, Column(group, c))
    ELSE buf

\* One column of one group: the column's values, or the default.
Store(buf, c, group, default) ==
    IF c \in input_columns
    THEN SliceAssign(buf, current_offset, Column(group, c))
    ELSE SliceFill(buf, current_offset, Len(group), default)

StoreEdges(group) ==
    IF "vehicle_edge" \in input_columns
    THEN edges \o [k \in 1..Len(group) |-> Str(Cell("vehicle_edge", group[k].src))]
    ELSE edges \o [k \in 1..Len(group) |-> DEFAULT_EDGE]

\* lines 66-116: one iteration of the flatten loop
FlattenStep ==
    /\ pc = "flatten"
    /\ i < Len(grouped)
    /\ LET vehicle_id == grouped[i + 1].key
           group == grouped[i + 1].rows
           num_positions == Len(group)
       IN  IF {"vehicle_x", "vehicle_y"} \subseteq input_columns
           THEN /\ coords' = SliceAssignAxis(
                                SliceAssignAxis(coords, current_offset,
                                                Column(group, "vehicle_x"), 1),
                                current_offset, Column(group, "vehicle_y"), 2)
                /\ timestamps' = SliceAssign(timestamps, current_offset, Times(group))
                /\ speeds' = Store(speeds, "vehicle_speed", group, DEFAULT_SPEED)
                /\ edges' = StoreEdges(group)
                /\ positions' = Store(positions, "vehicle_pos", group, DEFAULT_POSITION)
                /\ relative_speeds' = Store(relative_speeds, "vehicle_speedRelative",
                                            group, DEFAULT_RELATIVE_SPEED)
                /\ angles' = Store(angles, "vehicle_angle", group, DEFAULT_ANGLE)
                /\ vehicle_ids' = Append(vehicle_ids, Str(vehicle_id))
                /\ current_offset' = current_offset + num_positions
                /\ offsets' = [offsets EXCEPT ![i + 2] = current_offset + num_positions]
                /\ i' = i + 1
                /\ pc' = "flatten"
           ELSE /\ pc' = "error"
                /\ UNCHANGED buffers
    /\ UNCHANGED <<inputs, frame, table, output_file>>

\* lines 124-127: timestamps.min() / timestamps.max() after the loop
Stats ==
    /\ pc = "flatten"
    /\ i = Len(grouped)
    /\ pc' = IF Len(timestamps) = 0 THEN "error" ELSE "assemble"
    /\ UNCHANGED <<inputs, frame, buffers, table, output_file>>

\* lines 131-152: the Arrow table
ArrowTable ==
    [geometry |-> ListArray(offsets, coords),
     timestamps |-> ListArray(offsets, timestamps),
     speeds |-> ListArray(offsets, speeds),
     edges |-> ListArray(offsets, edges),
     positions |-> ListArray(offsets, positions),
     relative_speeds |-> ListArray(offsets, relative_speeds),
     angles |-> ListArray(offsets, angles),
     vehicle_id |-> vehicle_ids]

Assemble ==
    /\ pc = "assemble"
    /\ table' = ArrowTable
    /\ pc' = "write"
    /\ UNCHANGED <<inputs, frame, buffers, output_file>>

\* lines 154-174: serialize, gzip, write, report
Write ==
    /\ pc = "write"
    /\ output_file' = table
    /\ pc' = "done"
    /\ UNCHANGED <<inputs, frame, buffers, table>>

Next ==
    \/ Load
    \/ Filter
    \/ Count
    \/ Sort
    \/ Sample
    \/ Group
    \/ FlattenStep
    \/ Stats
    \/ Assemble
    \/ Write

Spec == Init /\ [][Next]_vars

\* ------------------------------------------------------------ properties
Source == ReadParquet(input_rows)
Filtered == FilterRows(Source)
Vehicles(d) == IdsOf(d) \ {NULL}
SrcOf(d) == {d[k].src : k \in 1..Len(d)}
SrcOfVehicle(d, v) == {d[k].src : k \in {j \in 1..Len(d) : d[j].vehicle_id = v}}

\* The rows that pass the time window and the sampling (meaningful once the
\* sampling step has run).
Retained ==
    IF SAMPLE_VEHICLES = None THEN Filtered
    ELSE SelectSeq(Filtered, LAMBDA r : r.vehicle_id \in Range(sampled_vehicles))

LoopDone ==
    \/ pc = "flatten" /\ i = Len(grouped)
    \/ pc \in {"assemble", "write", "done"}
Assembled == pc \in {"write", "done"}

RECURSIVE SumSeq(_)
SumSeq(s) == IF s = <<>> THEN 0 ELSE Last(s) + SumSeq(Front(s))

TripLens == [t \in 1..(Len(offsets) - 1) |-> offsets[t + 1] - offsets[t]]
Trips == 1..(Len(offsets) - 1)

\* C1: after the flatten loop the trip lengths sum to the number of rows
\* retained by filter and sampling, and each of the seven flat buffers has
\* exactly that many elements.
C1_RowsConserved ==
    LoopDone =>
        /\ SumSeq(TripLens) = Len(Retained)
        /\ Len(coords) = Len(Retained)
        /\ Len(timestamps) = Len(Retained)
        /\ Len(speeds) = Len(Retained)
        /\ Len(edges) = Len(Retained)
        /\ Len(positions) = Len(Retained)
        /\ Len(relative_speeds) = Len(Retained)
        /\ Len(angles) = Len(Retained)

\* C2: during and after the flatten loop offsets has geoms_num + 1 entries,
\* starts at 0 and is non-decreasing over the filled prefix; after the loop
\* its last entry is coord_num, the number of retained rows.
C2_OffsetsPartition ==
    (pc = "flatten" \/ LoopDone) =>
        /\ Len(offsets) = geoms_num + 1
        /\ offsets[1] = 0
        /\ \A t \in 1..i : offsets[t] <= offsets[t + 1]
        /\ offsets[i + 1] = current_offset
        /\ LoopDone => /\ coord_num = Len(Retained)
                       /\ offsets[Len(offsets)] = coord_num

\* C3: a readable input with all required columns and no row inside the
\* time window never ends in the error state, and the written output has no
\* trips, offsets = [0], empty buffers and 0 vehicles reported.
C3_EmptyWindowSucceeds ==
    (input_readable /\ REQUIRED \subseteq input_columns /\ Filtered = <<>>) =>
        /\ pc # "error"
        /\ pc = "done" =>
              /\ output_file # NoFile
              /\ output_file.vehicle_id = <<>>
              /\ offsets = <<0>>
              /\ coords = <<>> /\ timestamps = <<>> /\ speeds = <<>>
              /\ edges = <<>> /\ positions = <<>>
              /\ relative_speeds = <<>> /\ angles = <<>>
              /\ total_vehicles = 0

\* C4: right after the sampling step: with sampling disabled every filtered
\* row is kept; with N >= the number of distinct vehicles every vehicle is
\* kept; with N below it exactly N vehicles are kept; a kept vehicle keeps
\* all its filtered rows and no row of a vehicle outside the draw remains.
C4_Sampling ==
    pc = "group" =>
        LET all == Vehicles(Filtered)
            kept == Vehicles(df)
        IN  /\ SAMPLE_VEHICLES = None =>
                  kept = all /\ SrcOf(df) = SrcOf(Filtered)
            /\ (SAMPLE_VEHICLES # None /\ SAMPLE_VEHICLES >= Cardinality(all)) =>
                  kept = all
            /\ (SAMPLE_VEHICLES # None /\ SAMPLE_VEHICLES < Cardinality(all)) =>
                  Cardinality(kept) = SAMPLE_VEHICLES
            /\ \A v \in kept : SrcOfVehicle(df, v) = SrcOfVehicle(Filtered, v)
            /\ SAMPLE_VEHICLES # None =>
                  \A k \in 1..Len(df) : df[k].vehicle_id \in Range(sampled_vehicles)

ExpectNum(c, s, default) == IF c \in input_columns THEN Cell(c, s) ELSE default
ExpectEdge(s) ==
    IF "vehicle_edge" \in input_columns THEN Str(Cell("vehicle_edge", s))
    ELSE DEFAULT_EDGE

\* C5: in the assembled table every trip's seven sequences have length
\* offsets[t+1] - offsets[t], and position k of all seven comes from one and
\* the same source row.
C5_TripsAligned ==
    Assembled =>
        \A t \in Trips :
            LET n == offsets[t + 1] - offsets[t]
            IN  /\ Len(table.geometry[t]) = n
                /\ Len(table.timestamps[t]) = n
                /\ Len(table.speeds[t]) = n
                /\ Len(table.edges[t]) = n
                /\ Len(table.positions[t]) = n
                /\ Len(table.relative_speeds[t]) = n
                /\ Len(table.angles[t]) = n
                /\ \A k \in 1..n :
                      \E s \in 1..Len(input_rows) :
                          /\ table.geometry[t][k] =
                                <<Cell("vehicle_x", s), Cell("vehicle_y", s)>>
                          /\ table.timestamps[t][k] = F32(input_rows[s].timestep_time)
                          /\ table.speeds[t][k] =
                                ExpectNum("vehicle_speed", s, DEFAULT_SPEED)
                          /\ table.edges[t][k] = ExpectEdge(s)
                          /\ table.positions[t][k] =
                                ExpectNum("vehicle_pos", s, DEFAULT_POSITION)
                          /\ table.relative_speeds[t][k] =
                                ExpectNum("vehicle_speedRelative", s,
                                          DEFAULT_RELATIVE_SPEED)
                          /\ table.angles[t][k] =
                                ExpectNum("vehicle_angle", s, DEFAULT_ANGLE)

C5_Witness ==
    /\ pc = "done"
    /\ Len(offsets) = 3
    /\ offsets[2] > 0 /\ offsets[3] > offsets[2]
    /\ input_columns = ALL_COLUMNS
    /\ input_rows[1].vehicle_id = 2
    /\ output_file.edges[1] = <<Str(Cell("vehicle_edge", 2))>>

\* C6: after the flatten loop, inside every trip's range of the flat
\* timestamps buffer the timestamps are non-decreasing, and so they are in
\* the assembled table.
C6_TimestampsSorted ==
    /\ LoopDone =>
          \A t \in Trips :
              \A j, k \in (offsets[t] + 1)..offsets[t + 1] :
                  j < k => timestamps[j] <= timestamps[k]
    /\ Assembled =>
          \A t \in 1..Len(table.timestamps) :
              \A j, k \in 1..Len(table.timestamps[t]) :
                  j < k => table.timestamps[t][j] <= table.timestamps[t][k]

\* A finished run whose input held two in-window samples of one vehicle in
\* descending time order, under sampling.
C6_Witness ==
    /\ pc = "done"
    /\ SAMPLE_VEHICLES # None
    /\ \E a, b \in 1..Len(input_rows) :
          /\ a < b
          /\ input_rows[a].vehicle_id = input_rows[b].vehicle_id
          /\ input_rows[a].vehicle_id # NULL
          /\ InWindow(input_rows[a]) /\ InWindow(input_rows[b])
          /\ input_rows[a].timestep_time > input_rows[b].timestep_time
    /\ \E t \in 1..Len(table.timestamps) :
          /\ Len(table.timestamps[t]) = 2
          /\ table.timestamps[t][1] < table.timestamps[t][2]

\* The number of retained samples of the vehicle named by trip t.
TripSamples ==
    [t \in 1..Len(table.vehicle_id) |->
        Cardinality({k \in 1..Len(Retained) :
            /\ Retained[k].vehicle_id # NULL
            /\ Str(Retained[k].vehicle_id) = table.vehicle_id[t]})]

\* C7: the assembled table has one trip per distinct vehicle of the retained
\* rows, one vehicle_id entry per trip, entry t is the string form of the
\* identifier of exactly the rows packed into trip t; trips of 2, 3 and 1
\* samples give offsets [0,2,5,6].
C7_OneTripPerVehicle ==
    Assembled =>
        LET kept == Vehicles(Retained)
        IN  /\ Len(table.vehicle_id) = Cardinality(kept)
            /\ Len(table.geometry) = Cardinality(kept)
            /\ Len(offsets) = Cardinality(kept) + 1
            /\ \A t, u \in 1..Len(table.vehicle_id) :
                  t # u => table.vehicle_id[t] # table.vehicle_id[u]
            /\ \A t \in 1..Len(table.vehicle_id) :
                  \E v \in kept :
                      /\ table.vehicle_id[t] = Str(v)
                      /\ Len(table.geometry[t]) =
                            Cardinality(SrcOfVehicle(Retained, v))
                      /\ {table.geometry[t][k] : k \in 1..Len(table.geometry[t])} =
                            {<<Cell("vehicle_x", s), Cell("vehicle_y", s)>> :
                                s \in SrcOfVehicle(Retained, v)}
            /\ TripSamples = <<2, 3, 1>> => offsets = <<0, 2, 5, 6>>

C7_Witness ==
    /\ pc = "done"
    /\ Len(input_rows) = 7
    /\ TripSamples = <<2, 3, 1>>
    /\ output_file.vehicle_id = <<Str(1), Str(2), Str(3)>>

\* The value the output holds at position k of trip t for a present column.
TripSrc(t, k) == grouped[t].rows[k].src

AbsentIsDefault(c, column, default) ==
    c \notin input_columns =>
        \A t \in 1..Len(column) :
            /\ Len(column[t]) = Len(table.timestamps[t])
            /\ \A k \in 1..Len(column[t]) : column[t][k] = default

PresentIsSource(c, column) ==
    c \in input_columns =>
        \A t \in 1..Len(column) :
            \A k \in 1..Len(column[t]) : column[t][k] = Cell(c, TripSrc(t, k))

C9_NoOutputOnBadInput ==
    (~input_readable \/ ~(REQUIRED \subseteq input_columns)) =>
        /\ output_file = NoFile
        /\ pc \notin {"write", "done"}

CountInWindow(v) ==
    Cardinality({s \in 1..Len(input_rows) :
        InWindow(input_rows[s]) /\ input_rows[s].vehicle_id = v})

\* C10: the trip order is a function of the set of retained vehicles alone:
\* the vehicle_id column lists that set in ascending order and offsets are
\* the running sums of the vehicles' in-window sample counts, whatever the
\* order of the draw and of the input rows.
C10_TripOrderDeterministic ==
    Assembled =>
        LET order == SortedSeq(Vehicles(Retained))
        IN  /\ table.vehicle_id = [t \in 1..Len(order) |-> Str(order[t])]
            /\ Len(offsets) = Len(order) + 1
            /\ offsets[1] = 0
            /\ \A t \in 1..Len(order) :
                  offsets[t + 1] = offsets[t] + CountInWindow(order[t])

\* A finished run whose draw returned vehicle 2 before vehicle 1 and whose
\* input listed vehicle 2 first.
C10_Witness ==
    /\ pc = "done"
    /\ sampled_vehicles = <<2, 1>>
    /\ Len(input_rows) >= 2
    /\ input_rows[1].vehicle_id = 2
    /\ output_file.vehicle_id = <<Str(1), Str(2)>>
    /\ offsets[3] = Len(input_rows)
====
